---- MODULE Spec2Model ----
(***************************************************************************)
(* Model of crates/oxc_transformer/src/common/top_level_statements.rs:     *)
(* the store of statements to be added at the top of a program             *)
(* (TopLevelStatementsStore, a RefCell<Vec<Statement>>) and the transform  *)
(* that inserts them after the existing import declarations               *)
(* (TopLevelStatements::exit_program).                                     *)
(*                                                                         *)
(* Indices of the Rust code are 0-based; sequences here are 1-based, so    *)
(* the Rust element v[i] is the element v[i + 1] of the sequence.          *)
(***************************************************************************)
EXTENDS Integers, Sequences, FiniteSets

VARIABLES
    body,       \* program.body: the program's statements
    stmts,      \* the Vec inside TopLevelStatementsStore.stmts
    borrow,     \* the borrow flag of the RefCell around that Vec
    pc,         \* position of exit_program: "idle" (not running) or "flush"
    fault,      \* the panic that ended the run, "none" while it runs
    origBody,   \* history: the body the program was constructed with
    appended,   \* history: the statements pushed by insert_statement, in call order
    marks,      \* history: Len(appended) at the end of each call of exit_program
    flushes,    \* history: number of calls of exit_program
    reentrant,  \* history: a call was made while exit_program was running
    other,      \* the second compilation unit: its program, store and history
    cur         \* the compilation unit (1 or 2) the variables above belong to

vars == <<body, stmts, borrow, pc, fault, origBody, appended, marks, flushes, reentrant,
          other, cur>>

----------------------------------------------------------------------------
(* Bounds of the model *)

MaxBody == 3        \* longest original program body
MaxAppends == 3     \* most calls of insert_statement that push
MaxFlushes == 2     \* most calls of exit_program
TwoBody == 1        \* two units: longest original body of each
TwoAppends == 2     \* two units: most calls of insert_statement that push, in all
TwoFlushes == 2     \* two units: most calls of exit_program, in all

----------------------------------------------------------------------------
(* Statements *)

\* The statement kinds told apart: Statement::ImportDeclaration and two others.
Kinds == {"Import", "Func", "Var"}

\* The kinds of the statements the other transforms insert.
InsertKinds == {"Import", "Var"}

\* A statement is an owned AST node: its kind and its identity.
Stmt(k, n) == [kind |-> k, id |-> n]

\* matches!(stmt, Statement::ImportDeclaration(_))
IsImportOrVar(s) == s.kind \in {"Import", "Var"}
IsImport(s) == s.kind = "Import"

\* The bodies a program can be constructed with: any kinds, in any order.
RECURSIVE KindSeqs(_)
KindSeqs(n) ==
    IF n = 0 THEN {<<>>}
    ELSE LET shorter == KindSeqs(n - 1)
         IN  shorter \cup {Append(q, k) : q \in {r \in shorter : Len(r) = n - 1}, k \in Kinds}

MkBody(ks) == [i \in 1..Len(ks) |-> Stmt(ks[i], i)]

----------------------------------------------------------------------------
(* RefCell *)

\* The borrow flag: UNUSED when nobody borrows, WRITING under a RefMut.
UNUSED == 0
WRITING == -1

\* RefCell::borrow_mut panics unless the cell is unborrowed.
BorrowMutUnchecked == FALSE
BorrowMutPanics == borrow # UNUSED

----------------------------------------------------------------------------
(* Vec and iterator operations used by exit_program *)

\* Option<usize>::None of rposition
NONE == -1

\* Iterator::position: the 0-based index of the first import, scanning from the front.
RECURSIVE PositionFrom(_, _)
PositionFrom(b, i) ==
    IF i > Len(b) THEN NONE
    ELSE IF IsImport(b[i]) THEN i - 1
    ELSE PositionFrom(b, i + 1)

\* Iterator::rposition: the 0-based index of the last import, scanning from the end.
RECURSIVE RPositionFrom(_, _)
RPositionFrom(b, i) ==
    IF i = 0 THEN NONE
    ELSE IF IsImport(b[i]) THEN i - 1
    ELSE RPositionFrom(b, i - 1)

PositionFirst(b) == PositionFrom(b, 1)
RPosition(b) == RPositionFrom(b, Len(b))

\* .map_or(0, |i| i + 1)
IndexDefaultOne(b) == LET r == RPosition(b) IN IF r = NONE THEN 1 ELSE r + 1
IndexNoIncrement(b) == LET r == RPosition(b) IN IF r = NONE THEN 0 ELSE r
InsertIndex(b) == LET r == RPosition(b) IN IF r = NONE THEN 0 ELSE r + 1

\* stmts.is_empty()
IsNotEmpty(v) == Len(v) # 0
IsEmpty(v) == Len(v) = 0

\* stmts.drain(..): the items the iterator yields, and what the Vec holds afterwards.
DrainItemsFirst(v) == IF v = <<>> THEN v ELSE <<v[1]>>
DrainItems(v) == v
DrainKeeps(v) == v
DrainRest(v) == <<>>

\* Vec::splice(start..end, items) panics unless start <= end <= len.
SpliceInRange(v, start, end) == start <= end /\ end <= Len(v)

\* Vec::splice(start..end, items): the range is removed, the items take its place.
SpliceReversed(v, start, end, items) ==
    LET n == Len(items)
        tail == Len(v) - end
    IN  [i \in 1..(start + n + tail) |->
            IF i <= start THEN v[i]
            ELSE IF i <= start + n THEN items[n + 1 - (i - start)]
            ELSE v[end + (i - start - n)]]
SpliceOverwrite(v, start, end, items) ==
    LET n == Len(items)
        e == IF Len(v) > end THEN end + 1 ELSE end
        tail == Len(v) - e
    IN  [i \in 1..(start + n + tail) |->
            IF i <= start THEN v[i]
            ELSE IF i <= start + n THEN items[i - start]
            ELSE v[e + (i - start - n)]]
Splice(v, start, end, items) ==
    LET n == Len(items)
        tail == Len(v) - end
    IN  [i \in 1..(start + n + tail) |->
            IF i <= start THEN v[i]
            ELSE IF i <= start + n THEN items[i - start]
            ELSE v[end + (i - start - n)]]

----------------------------------------------------------------------------
(* Initial state: TopLevelStatementsStore::new and a parsed program *)

\* A compilation unit that has not started: its program and its new, empty store.
NewUnit(b) ==
    [body |-> b, stmts |-> <<>>, borrow |-> UNUSED, pc |-> "idle", fault |-> "none",
     origBody |-> b, appended |-> <<>>, marks |-> <<>>, flushes |-> 0, reentrant |-> FALSE]

Init ==
    /\ \E ks \in KindSeqs(MaxBody) : body = MkBody(ks)
    /\ stmts = <<>>
    /\ borrow = UNUSED
    /\ pc = "idle"
    /\ fault = "none"
    /\ origBody = body
    /\ appended = <<>>
    /\ marks = <<>>
    /\ flushes = 0
    /\ reentrant = FALSE
    /\ other = NewUnit(<<>>)
    /\ cur = 1

\* A panic unwinds the stack: the RefMut guards are dropped, the run is over.
Panic(why) ==
    /\ fault' = why
    /\ borrow' = UNUSED
    /\ pc' = "idle"
    /\ UNCHANGED <<body, stmts>>

Running == fault = "none"

----------------------------------------------------------------------------
(* TopLevelStatementsStore::insert_statement *)

\* self.stmts.borrow_mut().push(stmt): the guard is a temporary, dropped at the `;`.
InsertStatementEager(k) ==
    /\ Running
    /\ Len(appended) < MaxAppends
    /\ reentrant' = (reentrant \/ pc = "flush")
    /\ IF BorrowMutPanics
       THEN /\ Panic("BorrowMutError")
            /\ UNCHANGED <<appended>>
       ELSE LET s == Stmt(k, Len(origBody) + Len(appended) + 1)
                index == InsertIndex(body)
            IN  /\ body' = Splice(body, index, index, <<s>>)
                /\ appended' = Append(appended, s)
                /\ UNCHANGED <<stmts, borrow, pc, fault>>
    /\ UNCHANGED <<origBody, marks, flushes>>
InsertStatementFront(k) ==
    /\ Running
    /\ Len(appended) < MaxAppends
    /\ reentrant' = (reentrant \/ pc = "flush")
    /\ IF BorrowMutPanics
       THEN /\ Panic("BorrowMutError")
            /\ UNCHANGED <<appended>>
       ELSE LET s == Stmt(k, Len(origBody) + Len(appended) + 1)
            IN  /\ stmts' = <<s>> \o stmts
                /\ appended' = Append(appended, s)
                /\ UNCHANGED <<body, borrow, pc, fault>>
    /\ UNCHANGED <<origBody, marks, flushes>>
InsertStatement(k) ==
    /\ Running
    /\ Len(appended) < MaxAppends
    /\ reentrant' = (reentrant \/ pc = "flush")
    /\ IF BorrowMutPanics
       THEN /\ Panic("BorrowMutError")
            /\ UNCHANGED <<appended>>
       ELSE LET s == Stmt(k, Len(origBody) + Len(appended) + 1)
            IN  /\ stmts' = Append(stmts, s)
                /\ appended' = Append(appended, s)
                /\ UNCHANGED <<body, borrow, pc, fault>>
    /\ UNCHANGED <<origBody, marks, flushes>>

----------------------------------------------------------------------------
(* TopLevelStatements::exit_program *)

\* let mut stmts = self.ctx.top_level_statements.stmts.borrow_mut();
ExitProgramBorrow ==
    /\ Running
    /\ flushes < MaxFlushes
    /\ flushes' = flushes + 1
    /\ reentrant' = (reentrant \/ pc = "flush")
    /\ IF BorrowMutPanics
       THEN Panic("BorrowMutError")
       ELSE /\ borrow' = WRITING
            /\ pc' = "flush"
            /\ UNCHANGED <<body, stmts, fault>>
    /\ UNCHANGED <<origBody, appended, marks>>

\* if stmts.is_empty() { return; }   The guard is dropped on return.
ExitProgramReturnLeaks ==
    /\ Running
    /\ pc = "flush"
    /\ IsEmpty(stmts)
    /\ pc' = "idle"
    /\ marks' = Append(marks, Len(appended))
    /\ UNCHANGED <<body, stmts, borrow, fault, origBody, appended, flushes, reentrant>>
ExitProgramReturnTruncates ==
    /\ Running
    /\ pc = "flush"
    /\ IsEmpty(stmts)
    /\ body' = SubSeq(body, 1, InsertIndex(body))
    /\ borrow' = UNUSED
    /\ pc' = "idle"
    /\ marks' = Append(marks, Len(appended))
    /\ UNCHANGED <<stmts, fault, origBody, appended, flushes, reentrant>>
ExitProgramReturn ==
    /\ Running
    /\ pc = "flush"
    /\ IsEmpty(stmts)
    /\ borrow' = UNUSED
    /\ pc' = "idle"
    /\ marks' = Append(marks, Len(appended))
    /\ UNCHANGED <<body, stmts, fault, origBody, appended, flushes, reentrant>>

\* let index = ...; program.body.splice(index..index, stmts.drain(..));
\* The guard is dropped at the end of the function.
ExitProgramSplice ==
    /\ Running
    /\ pc = "flush"
    /\ ~IsEmpty(stmts)
    /\ LET index == InsertIndex(body)
       IN  IF SpliceInRange(body, index, index)
           THEN /\ body' = Splice(body, index, index, DrainItems(stmts))
                /\ stmts' = DrainRest(stmts)
                /\ borrow' = UNUSED
                /\ pc' = "idle"
                /\ marks' = Append(marks, Len(appended))
                /\ UNCHANGED <<fault>>
           ELSE /\ Panic("SpliceRange")
                /\ marks' = Append(marks, Len(appended))
    /\ UNCHANGED <<origBody, appended, flushes, reentrant>>

----------------------------------------------------------------------------

\* Nothing happens in the second compilation unit.
Alone == UNCHANGED <<other, cur>>

Next ==
    \/ \E k \in InsertKinds : InsertStatement(k) /\ Alone
    \/ ExitProgramBorrow /\ Alone
    \/ ExitProgramReturn /\ Alone
    \/ ExitProgramSplice /\ Alone

Spec == Init /\ [][Next]_vars

----------------------------------------------------------------------------
(* One transform run: the walk of the tree, then the exit of the program *)

\* The other transforms call insert_statement while the tree is walked, which is
\* before exit_program ("Must run after all other transforms").
WalkInsert(k) == flushes = 0 /\ pc = "idle" /\ InsertStatement(k)

\* The traversal calls exit_program on the program once, when the walk is over.
ExitHook ==
    \/ flushes = 0 /\ ExitProgramBorrow /\ Alone
    \/ ExitProgramReturn /\ Alone
    \/ ExitProgramSplice /\ Alone

WalkNext ==
    \/ \E k \in InsertKinds : WalkInsert(k) /\ Alone
    \/ flushes = 0 /\ ExitProgramBorrow /\ Alone
    \/ ExitProgramReturn /\ Alone
    \/ ExitProgramSplice /\ Alone

\* The traversal always reaches the exit of the program and exit_program runs to its end.
WalkSpec == Init /\ [][WalkNext]_vars /\ WF_vars(ExitHook)

----------------------------------------------------------------------------
(* A run that a failing transform aborts *)

\* A transform fails outside exit_program: the run is over and the context,
\* with the statements still in its store, is dropped.
PassFails ==
    /\ Running
    /\ pc = "idle"
    /\ fault' = "PassFailed"
    /\ stmts' = <<>>
    /\ UNCHANGED <<body, borrow, pc, origBody, appended, marks, flushes, reentrant>>

AbortNext ==
    \/ \E k \in InsertKinds : InsertStatement(k) /\ Alone
    \/ ExitProgramBorrow /\ Alone
    \/ ExitProgramReturn /\ Alone
    \/ ExitProgramSplice /\ Alone
    \/ PassFails /\ Alone

AbortSpec == Init /\ [][AbortNext]_vars

----------------------------------------------------------------------------
(* Two compilation units, each with its own TransformCtx, store and program *)

\* The unit the variables belong to, as a record.
Me ==
    [body |-> body, stmts |-> stmts, borrow |-> borrow, pc |-> pc, fault |-> fault,
     origBody |-> origBody, appended |-> appended, marks |-> marks, flushes |-> flushes,
     reentrant |-> reentrant]

TwoInit ==
    /\ \E ks \in KindSeqs(TwoBody) : body = MkBody(ks)
    /\ stmts = <<>>
    /\ borrow = UNUSED
    /\ pc = "idle"
    /\ fault = "none"
    /\ origBody = body
    /\ appended = <<>>
    /\ marks = <<>>
    /\ flushes = 0
    /\ reentrant = FALSE
    /\ \E ks \in KindSeqs(TwoBody) : other = NewUnit(MkBody(ks))
    /\ cur = 1

\* The other unit runs next. Its transform reaches the store through its own
\* ctx (Self { ctx }), and that store is the Vec made for it by
\* TopLevelStatementsStore::new.
SwitchSharedStore ==
    /\ other' = Me
    /\ cur' = 3 - cur
    /\ body' = other.body
    /\ pc' = other.pc
    /\ fault' = other.fault
    /\ origBody' = other.origBody
    /\ appended' = other.appended
    /\ marks' = other.marks
    /\ flushes' = other.flushes
    /\ reentrant' = other.reentrant
    /\ UNCHANGED <<stmts, borrow>>
Switch ==
    /\ other' = Me
    /\ cur' = 3 - cur
    /\ body' = other.body
    /\ stmts' = other.stmts
    /\ borrow' = other.borrow
    /\ pc' = other.pc
    /\ fault' = other.fault
    /\ origBody' = other.origBody
    /\ appended' = other.appended
    /\ marks' = other.marks
    /\ flushes' = other.flushes
    /\ reentrant' = other.reentrant

TwoNext ==
    \/ \E k \in InsertKinds :
          Len(appended) + Len(other.appended) < TwoAppends /\ InsertStatement(k) /\ Alone
    \/ flushes + other.flushes < TwoFlushes /\ ExitProgramBorrow /\ Alone
    \/ ExitProgramReturn /\ Alone
    \/ ExitProgramSplice /\ Alone
    \/ Switch

TwoSpec == TwoInit /\ [][TwoNext]_vars

----------------------------------------------------------------------------
(* Vocabulary of the properties *)

NotImport(s) == ~IsImport(s)

\* The sequence of kinds of a sequence of statements.
KindsOf(q) == [i \in 1..Len(q) |-> q[i].kind]

\* The imports of b form a prefix of b.
PrefixForm(b) == \A i, j \in 1..Len(b) : (i < j /\ IsImport(b[j])) => IsImport(b[i])

\* One past the 0-based index of the last import of b, 0 if b has none.
AfterLastImport(b) ==
    LET at == {i \in 1..Len(b) : IsImport(b[i])}
    IN  IF at = {} THEN 0 ELSE CHOOSE i \in at : \A j \in at : j <= i

\* Number of places of q that hold s.
Count(q, s) == Cardinality({i \in 1..Len(q) : q[i] = s})

\* Len(appended) when exit_program last ended, 0 if it never ran.
LastMark == IF marks = <<>> THEN 0 ELSE marks[Len(marks)]

\* exit_program is not running and nothing was inserted since it last ended.
JustFlushed == pc = "idle" /\ marks # <<>> /\ LastMark = Len(appended)

\* exit_program was called exactly once, has ended, and nothing was inserted since.
FlushedOnce == flushes = 1 /\ JustFlushed

\* This step is exit_program running to its end (not a call made meanwhile).
FlushEnds == pc = "flush" /\ Len(marks') = Len(marks) + 1

----------------------------------------------------------------------------
(* Properties *)

\* C1: for a body of K imports followed by M other statements, N >= 1 calls of
\* insert_statement and then one exit_program give the K imports, then the N
\* inserted statements in call order, then the M others; K + N + M in all.
C1_PrefixBodyResult ==
    (PrefixForm(origBody) /\ FlushedOnce /\ ~reentrant /\ Len(appended) >= 1) =>
        /\ fault = "none"
        /\ body = SelectSeq(origBody, IsImport) \o appended \o SelectSeq(origBody, NotImport)
        /\ Len(body) = Len(origBody) + Len(appended)

\* Scenario A: [Import a, Import b, Func f] + [Var x] gives [Import a, Import b, Var x, Func f].
C1_Witness ==
    /\ FlushedOnce
    /\ KindsOf(origBody) = <<"Import", "Import", "Func">>
    /\ KindsOf(appended) = <<"Var">>
    /\ KindsOf(body) = <<"Import", "Import", "Var", "Func">>
    /\ body[3] = appended[1]

\* C2: for any body, a flush of a non-empty buffer puts the buffer, in its order,
\* at p = one past the last import (0 without imports): the statements before p
\* stay, those from p on move right by the number of drained statements, and every
\* import of the old body comes before the inserted block.
C2_SpliceAtLastImport ==
    [][(FlushEnds /\ stmts # <<>> /\ fault' = "none") =>
        LET p == AfterLastImport(body)
            n == Len(stmts)
        IN  /\ Len(body') = Len(body) + n
            /\ \A i \in 1..Len(body) : i <= p => body'[i] = body[i]
            /\ \A i \in 1..n : body'[p + i] = stmts[i]
            /\ \A i \in 1..Len(body) : i > p => body'[i + n] = body[i]
            /\ \A i \in 1..Len(body) : IsImport(body[i]) => i <= p
            /\ body' = SubSeq(body, 1, p) \o stmts \o SubSeq(body, p + 1, Len(body))]_vars

\* A flush of two statements into a body whose imports are not a prefix.
C2_Witness ==
    /\ FlushedOnce
    /\ KindsOf(origBody) = <<"Func", "Import", "Var">>
    /\ Len(appended) = 2
    /\ body = <<origBody[1], origBody[2], appended[1], appended[2], origBody[3]>>

\* C3: with an empty body, N >= 0 calls of insert_statement and then exit_program
\* end without a panic and the body is exactly the N statements in call order.
C3_EmptyBodyResult ==
    (origBody = <<>> /\ FlushedOnce /\ ~reentrant) =>
        /\ fault = "none"
        /\ body = appended
        /\ stmts = <<>>

C3_Witness ==
    /\ origBody = <<>>
    /\ FlushedOnce
    /\ fault = "none"
    /\ Len(appended) = 2
    /\ body = appended

\* C4: exit_program run on an empty buffer leaves the body as it was and the
\* buffer empty.
C4_EmptyFlushIsNoOp ==
    [][(FlushEnds /\ stmts = <<>>) =>
        (body' = body /\ stmts' = <<>> /\ fault' = "none")]_vars

C4_Witness ==
    /\ JustFlushed
    /\ appended = <<>>
    /\ Len(origBody) >= 2
    /\ body = origBody

\* C5: every inserted statement is exactly once in buffer ++ body, every statement
\* of the original body is exactly once in the body and not in the buffer, and
\* the two lengths add up to the original length plus the number of insertions.
C5_NoLossNoDuplicate ==
    /\ \A i \in 1..Len(appended) : Count(stmts \o body, appended[i]) = 1
    /\ \A i \in 1..Len(origBody) :
          Count(body, origBody[i]) = 1 /\ Count(stmts, origBody[i]) = 0
    /\ Len(body) + Len(stmts) = Len(origBody) + Len(appended)

C5_Witness ==
    /\ flushes = 2
    /\ pc = "idle"
    /\ Len(marks) = 2
    /\ marks[1] = 1
    /\ marks[2] = 2
    /\ Len(stmts) = 1
    /\ Len(origBody) >= 2

\* C6: right after exit_program returns the buffer is empty, and a further
\* exit_program with no insert_statement in between changes neither the buffer
\* nor the body.
C6_DrainIdempotent ==
    /\ [](JustFlushed => stmts = <<>>)
    /\ [][(FlushEnds /\ marks # <<>> /\ LastMark = Len(appended)) =>
            (body' = body /\ stmts' = stmts /\ stmts' = <<>>)]_vars

C6_Witness ==
    /\ JustFlushed
    /\ Len(marks) = 2
    /\ marks[1] = 2
    /\ marks[2] = 2
    /\ stmts = <<>>
    /\ Len(body) = Len(origBody) + 2

\* C7 as stated: once an exit_program has flushed statements into the body, a
\* second exit_program on the same context never returns normally.
C7_SecondFlushFails == (Len(marks) >= 2 /\ marks[1] >= 1) => fault # "none"

\* C7 amended: a second exit_program is not detected. Without a reentrant call
\* it panics nowhere and returns like the first one: the buffer is drained into
\* the body once more.
C7_SecondFlushSilent ==
    (flushes >= 2 /\ ~reentrant) =>
        /\ fault = "none"
        /\ pc = "idle" =>
              /\ Len(marks) = flushes
              /\ \A i \in 1..LastMark : Count(body, appended[i]) = 1
              /\ stmts = SubSeq(appended, LastMark + 1, Len(appended))

C7_Witness ==
    /\ flushes = 2
    /\ pc = "idle"
    /\ fault = "none"
    /\ Len(marks) = 2
    /\ marks[1] = 1
    /\ marks[2] = 3
    /\ stmts = <<>>
    /\ Len(body) = Len(origBody) + 3

\* C8: while exit_program runs it holds the exclusive borrow, and a call of
\* insert_statement or exit_program made meanwhile panics and changes neither
\* the buffer nor the body.
C8_ReentrantCallPanics ==
    /\ [](pc = "flush" => borrow = WRITING)
    /\ [][(pc = "flush" /\ ~reentrant /\ reentrant') =>
            (fault' = "BorrowMutError" /\ stmts' = stmts /\ body' = body)]_vars

C8_Witness ==
    /\ reentrant
    /\ fault = "BorrowMutError"
    /\ Len(stmts) = 2
    /\ body = origBody

\* C9: without reentrant calls no call panics: the borrow is released whenever
\* no operation runs, so each insert_statement made then pushes its statement.
C9_SequentialInsertSucceeds ==
    /\ [](pc = "idle" => borrow = UNUSED)
    /\ [][(pc = "idle" /\ fault = "none") => fault' = "none"]_vars
    /\ [](~reentrant => fault = "none")

\* An insert_statement that pushed after an exit_program that returned early.
C9_Witness ==
    /\ ~reentrant
    /\ fault = "none"
    /\ Len(marks) >= 1
    /\ marks[1] = 0
    /\ Len(appended) >= 1
    /\ Len(stmts) >= 1

\* C10: insert_statement leaves the body alone; the body changes only in the step
\* of exit_program that drains a non-empty buffer, so until exit_program has
\* ended the body is the original body.
C10_InsertIsDeferred ==
    /\ [][Len(appended') # Len(appended) => body' = body]_vars
    /\ [][body' # body => (FlushEnds /\ stmts # <<>>)]_vars
    /\ [](marks = <<>> => body = origBody)

C10_Witness ==
    /\ marks = <<>>
    /\ Len(appended) = 2
    /\ Len(stmts) = 2
    /\ Len(origBody) >= 1
    /\ body = origBody

\* C11: the buffer is exactly the statements inserted since exit_program last
\* ended (or since creation), in call order: each insert_statement keeps what
\* was there as a prefix and puts its statement at the end, duplicates of kind
\* included.
C11_BufferIsAppendOnly ==
    /\ [](fault = "none" => stmts = SubSeq(appended, LastMark + 1, Len(appended)))
    /\ [][Len(appended') # Len(appended) =>
            /\ Len(stmts') = Len(stmts) + 1
            /\ SubSeq(stmts', 1, Len(stmts)) = stmts
            /\ stmts'[Len(stmts')] = appended'[Len(appended')]]_vars

\* Two statements of the same kind pushed after a flush that drained one.
C11_Witness ==
    /\ pc = "idle"
    /\ marks = <<1>>
    /\ Len(appended) = 3
    /\ stmts = <<appended[2], appended[3]>>
    /\ appended[2].kind = appended[3].kind

\* The bodies as long as b with imports at the places of b's imports, the other
\* kinds and all identities differing.
SameImportPlaces(b) ==
    {[i \in 1..Len(b) |-> Stmt(ks[i], 2 * Len(b) + 1 - i)] :
        ks \in {f \in [1..Len(b) -> Kinds] :
                    \A i \in 1..Len(b) : (f[i] = "Import") <=> (b[i].kind = "Import")}}

\* C15: a flush of a non-empty buffer puts the buffered block at the index that
\* exit_program computes for any other body of the same length with imports at
\* the same places.
C15_OnlyImportsDecideIndex ==
    [][(FlushEnds /\ stmts # <<>> /\ fault' = "none") =>
        \A b \in SameImportPlaces(body) :
            \A i \in 1..Len(stmts) : body'[InsertIndex(b) + i] = stmts[i]]_vars

\* A flush into [Import, Var, Func], which has other bodies with the same import places.
C15_Witness ==
    /\ FlushedOnce
    /\ KindsOf(origBody) = <<"Import", "Var", "Func">>
    /\ Len(appended) = 1
    /\ body[2] = appended[1]
    /\ Cardinality(SameImportPlaces(origBody)) = 4

\* C16: an insert_statement made after exit_program has returned does not panic,
\* leaves the body alone and leaves its statement in the buffer; a statement
\* inserted since the last exit_program is in the buffer and not in the body.
C16_LateInsertStaysPending ==
    /\ [][(pc = "idle" /\ marks # <<>> /\ fault = "none" /\ flushes' = flushes) =>
            \/ UNCHANGED vars
            \/ /\ fault' = "none"
               /\ body' = body
               /\ Len(appended') = Len(appended) + 1
               /\ stmts' = Append(stmts, appended'[Len(appended')])]_vars
    /\ [](\A i \in 1..Len(appended) :
            (fault = "none" /\ pc = "idle" /\ i > LastMark) =>
                (Count(body, appended[i]) = 0 /\ Count(stmts, appended[i]) = 1))

C16_Witness ==
    /\ pc = "idle"
    /\ fault = "none"
    /\ flushes = 1
    /\ marks = <<2>>
    /\ Len(appended) = 3
    /\ stmts = <<appended[3]>>
    /\ Count(body, appended[3]) = 0
    /\ Len(body) = Len(origBody) + 2

\* C17: after insert block A, flush, insert block B, flush, with no import in A,
\* block B sits where block A was put, directly after the last import of the
\* original body and directly before block A.
C17_SecondBlockPrecedesFirst ==
    LET a == SubSeq(appended, 1, marks[1])
        b == SubSeq(appended, marks[1] + 1, marks[2])
        p == AfterLastImport(origBody)
    IN  (/\ Len(marks) = 2
         /\ pc = "idle"
         /\ ~reentrant
         /\ marks[1] >= 1
         /\ marks[2] > marks[1]
         /\ \A i \in 1..marks[1] : appended[i].kind # "Import") =>
            /\ fault = "none"
            /\ body = SubSeq(origBody, 1, p) \o b \o a \o SubSeq(origBody, p + 1, Len(origBody))

C17_Witness ==
    /\ pc = "idle"
    /\ marks = <<1, 3>>
    /\ KindsOf(origBody) = <<"Import", "Func">>
    /\ KindsOf(appended) = <<"Var", "Import", "Var">>
    /\ body = <<origBody[1], appended[2], appended[3], appended[1], origBody[2]>>

\* C12: in a run where every insert_statement precedes the one exit_program,
\* every inserted statement is eventually in the body exactly once and stays
\* there, and the run ends with an empty buffer.
C12_InsertedReachBody ==
    /\ <>[](/\ pc = "idle"
            /\ stmts = <<>>
            /\ \A i \in 1..Len(appended) : Count(body, appended[i]) = 1)
    /\ [][\A i \in 1..Len(appended) :
            Count(body, appended[i]) = 1 => Count(body', appended[i]) = 1]_vars

C12_Witness ==
    /\ pc = "idle"
    /\ marks = <<2>>
    /\ stmts = <<>>
    /\ Len(origBody) >= 1
    /\ Count(body, appended[1]) = 1
    /\ Count(body, appended[2]) = 1

\* C13: the body holds every statement that was in the buffer at an exit_program
\* that has ended and none of the statements inserted since, in every state; if
\* a transform fails before any exit_program, the body is the original body.
C13_NoPartialFlush ==
    /\ \A i \in 1..Len(appended) :
          Count(body, appended[i]) = (IF i <= LastMark THEN 1 ELSE 0)
    /\ (fault = "PassFailed" /\ marks = <<>>) => body = origBody

C13_Witness ==
    /\ fault = "PassFailed"
    /\ marks = <<>>
    /\ Len(appended) = 2
    /\ Len(origBody) >= 1
    /\ body = origBody

\* The body of unit u holds its original statements and the statements inserted
\* through its own store and nothing else, and its buffer holds exactly the
\* statements inserted through its own store since its last exit_program.
OwnStatementsOnly(u) ==
    /\ \A i \in 1..Len(u.body) :
          \/ \E j \in 1..Len(u.origBody) : u.body[i] = u.origBody[j]
          \/ \E j \in 1..Len(u.appended) : u.body[i] = u.appended[j]
    /\ Len(u.body) + Len(u.stmts) = Len(u.origBody) + Len(u.appended)
    /\ u.stmts = SubSeq(u.appended,
                        (IF u.marks = <<>> THEN 0 ELSE u.marks[Len(u.marks)]) + 1,
                        Len(u.appended))

\* C14: with two units interleaved in any way, a step of one unit leaves the
\* other unit's state alone, a unit resumes with the buffer and the body it was
\* left with, and each unit's buffer and body hold only its own statements.
C14_UnitsAreIsolated ==
    /\ [][cur' = cur => other' = other]_vars
    /\ [][cur' # cur =>
            /\ stmts' = other.stmts /\ body' = other.body
            /\ other'.stmts = stmts /\ other'.body = body]_vars
    /\ [](OwnStatementsOnly(Me) /\ OwnStatementsOnly(other))

\* Both units have inserted and flushed, unit 1 before unit 2 inserted.
C14_Witness ==
    /\ cur = 2
    /\ pc = "idle"
    /\ marks = <<1>>
    /\ other.marks = <<1>>
    /\ Len(body) = Len(origBody) + 1
    /\ Len(other.body) = Len(other.origBody) + 1
    /\ Len(origBody) = 1
    /\ other.origBody = <<>>

====
